---- MODULE Spec2Model ----
(***************************************************************************)
(* Model of the equipment usage report pipeline:                           *)
(*   src/parse_equipment.py  parse_equipment_pdf, format_date,             *)
(*                           insert_into_database, verify_data, main       *)
(*   src/api/main.py         create_usage_log                              *)
(* and of the PostgreSQL store they talk to (tables equipment and          *)
(* usage_logs, one transaction per loader run).                            *)
(*                                                                         *)
(* Text is modelled as sequences of one-character strings, money and hours *)
(* as integers in hundredths (every token has exactly two fraction         *)
(* digits).  A line of the report is modelled by what the two compiled     *)
(* patterns capture from it: eq is the pair of groups of eq_header_pattern *)
(* (<<>> when the search fails), row the four groups of data_row_pattern   *)
(* (<<>> when the search fails).                                           *)
(***************************************************************************)
EXTENDS Integers, Sequences, FiniteSets, TLC

\* ------------------------------------------------------------------ bounds
MaxItems     == 4   \* lines plus page boundaries of a document
MaxConcItems == 2   \* the same, for documents loaded concurrently
MaxRuns      == 2   \* loads of the same document by one pipeline
MaxApiCalls  == 1   \* POST /usage_logs requests

Loaders == {1, 2}

\* ------------------------------------------------------------ text helpers
DigitChars == <<"0", "1", "2", "3", "4", "5", "6", "7", "8", "9">>

IsDigit(c) == \E i \in 1..10 : DigitChars[i] = c

DigitVal(c) == (CHOOSE i \in 1..10 : DigitChars[i] = c) - 1

RECURSIVE NumVal(_)
NumVal(s) ==
    IF s = <<>> THEN 0
    ELSE NumVal(SubSeq(s, 1, Len(s) - 1)) * 10 + DigitVal(s[Len(s)])

AllDigits(s) == \A i \in 1..Len(s) : IsDigit(s[i])

\* str.split(sep)
RECURSIVE Split(_, _)
Split(s, sep) ==
    IF s = <<>> THEN << <<>> >>
    ELSE LET r == Split(Tail(s), sep) IN
         IF Head(s) = sep THEN << <<>> >> \o r
         ELSE << <<Head(s)>> \o Head(r) >> \o Tail(r)

\* str.replace(old, '')
Remove(s, old) == SelectSeq(s, LAMBDA c : c # old)

\* str.zfill(width)
RECURSIVE ZFill(_, _)
ZFill(s, width) == IF Len(s) >= width THEN s ELSE ZFill(<<"0">> \o s, width)

\* str.strip()
RECURSIVE LStrip(_)
LStrip(s) == IF s # <<>> /\ Head(s) = " " THEN LStrip(Tail(s)) ELSE s

RECURSIVE RStrip(_)
RStrip(s) ==
    IF s # <<>> /\ s[Len(s)] = " " THEN RStrip(SubSeq(s, 1, Len(s) - 1)) ELSE s

Strip(s) == LStrip(RStrip(s))

\* float(text) for the decimal tokens of the report, in hundredths;
\* ValueError when the text is not digits '.' two digits
ValueError == -1

ToFloat(s) ==
    LET parts == Split(s, ".") IN
    IF Len(parts) # 2 \/ ~AllDigits(parts[1]) \/ ~AllDigits(parts[2])
       \/ Len(parts[2]) # 2 \/ (parts[1] = <<>> /\ parts[2] = <<>>)
    THEN ValueError
    ELSE NumVal(parts[1]) * 100 + NumVal(parts[2])

\* ------------------------------------------------------------------ inputs
IdA == <<"A", "-", "1">>
IdB == <<"B", "-", "2">>
NameT == <<"T">>
NameL == <<"L", " ">>

Date0115  == <<"0", "1", "/", "1", "5", "/", "2", "0", "2", "4">>
Date115   == <<"1", "/", "1", "5", "/", "2", "0", "2", "4">>
Date0201  == <<"0", "2", "/", "0", "1", "/", "2", "0", "2", "4">>
Date1345  == <<"1", "3", "/", "4", "5", "/", "2", "0", "2", "4">>

Hours850   == <<"8", ".", "5", "0">>
Amt120     == <<"1", "2", "0", ".", "0", "0">>
Amt0c120   == <<"0", ",", "1", "2", "0", ".", "0", "0">>
Amt1c200   == <<"1", ",", "2", "0", "0", ".", "0", "0">>
Amt450     == <<"4", "5", "0", ".", "0", "0">>

NoMatch == <<>>

Line(eq, row) == [eq |-> eq, row |-> row, brk |-> FALSE]

HA  == Line(<<IdA, NameT>>, NoMatch)
\* a line on which both patterns match
HA2 == Line(<<IdA, NameL>>, <<Date0115, Hours850, Amt120, Amt450>>)
HB  == Line(<<IdB, NameT>>, NoMatch)
R1  == Line(NoMatch, <<Date0115, Hours850, Amt120, Amt450>>)
R2  == Line(NoMatch, <<Date115, Hours850, Amt0c120, Amt450>>)
R3  == Line(NoMatch, <<Date0201, Hours850, Amt1c200, Amt450>>)
RBAD == Line(NoMatch, <<Date1345, Hours850, Amt120, Amt450>>)
NOISE == Line(NoMatch, NoMatch)
\* a page boundary of the document
PB  == [eq |-> NoMatch, row |-> NoMatch, brk |-> TRUE]

Items     == {HA, HA2, HB, R1, R2, R3, RBAD, NOISE, PB}
ConcItems == {HA, HB, R1}

\* pdf.pages: each page is the sequence of its lines, <<>> for a page
\* whose extract_text() is empty
RECURSIVE SplitPages(_)
SplitPages(items) ==
    IF items = <<>> THEN << <<>> >>
    ELSE LET r == SplitPages(Tail(items)) IN
         IF Head(items).brk THEN << <<>> >> \o r
         ELSE << <<Head(items)>> \o Head(r) >> \o Tail(r)

Docs == {SplitPages(d) : d \in UNION {[1..n -> Items] : n \in 0..MaxItems}}

ConcDocs ==
    {SplitPages(d) : d \in UNION {[1..n -> ConcItems] : n \in 0..MaxConcItems}}

\* ------------------------------------------------------ parse_equipment_pdf
NoEquipment == 0

LogEntryProfit(revenue, cost) == revenue - cost

\* mutants of ParseLine: the header branch without its continue, and a data
\* row with no open section kept under a section of its own
ParseLineFallThrough(line, st) ==
    LET opened ==
          IF line.eq # NoMatch
          THEN [st EXCEPT
                  !.extracted_data =
                      Append(@, [equipment_id |-> Strip(line.eq[1]),
                                 name         |-> Strip(line.eq[2]),
                                 usage_logs   |-> <<>>]),
                  !.current_equipment = Len(st.extracted_data) + 1]
          ELSE st
    IN  IF line.row # NoMatch /\ opened.current_equipment # NoEquipment
        THEN [opened EXCEPT
                !.extracted_data[opened.current_equipment].usage_logs =
                    Append(@, [date    |-> line.row[1],
                               hours   |-> ToFloat(Remove(line.row[2], ",")),
                               cost    |-> ToFloat(Remove(line.row[3], ",")),
                               revenue |-> ToFloat(Remove(line.row[4], ",")),
                               profit  |-> LogEntryProfit(
                                               ToFloat(Remove(line.row[4], ",")),
                                               ToFloat(Remove(line.row[3], ",")))])]
        ELSE opened

ParseLineOrphanKept(line, st) ==
    IF line.eq # NoMatch
    THEN [st EXCEPT
            !.extracted_data =
                Append(@, [equipment_id |-> Strip(line.eq[1]),
                           name         |-> Strip(line.eq[2]),
                           usage_logs   |-> <<>>]),
            !.current_equipment = Len(st.extracted_data) + 1]
    ELSE IF line.row # NoMatch
    THEN LET open ==
               IF st.current_equipment # NoEquipment THEN st
               ELSE [st EXCEPT
                       !.extracted_data =
                           Append(@, [equipment_id |-> <<>>, name |-> <<>>,
                                      usage_logs |-> <<>>]),
                       !.current_equipment = Len(st.extracted_data) + 1]
         IN  [open EXCEPT
                !.extracted_data[open.current_equipment].usage_logs =
                    Append(@, [date    |-> line.row[1],
                               hours   |-> ToFloat(Remove(line.row[2], ",")),
                               cost    |-> ToFloat(Remove(line.row[3], ",")),
                               revenue |-> ToFloat(Remove(line.row[4], ",")),
                               profit  |-> LogEntryProfit(
                                               ToFloat(Remove(line.row[4], ",")),
                                               ToFloat(Remove(line.row[3], ",")))])]
    ELSE st

ParseLine(line, st) ==
    IF line.eq # NoMatch
    THEN [st EXCEPT
            !.extracted_data =
                Append(@, [equipment_id |-> Strip(line.eq[1]),
                           name         |-> Strip(line.eq[2]),
                           usage_logs   |-> <<>>]),
            !.current_equipment = Len(st.extracted_data) + 1]
    ELSE IF line.row # NoMatch /\ st.current_equipment # NoEquipment
    THEN LET hours   == ToFloat(Remove(line.row[2], ","))
             cost    == ToFloat(Remove(line.row[3], ","))
             revenue == ToFloat(Remove(line.row[4], ","))
         IN  IF hours = ValueError \/ cost = ValueError \/ revenue = ValueError
             THEN [st EXCEPT !.warnings = @ + 1]
             ELSE [st EXCEPT
                     !.extracted_data[st.current_equipment].usage_logs =
                         Append(@, [date    |-> line.row[1],
                                    hours   |-> hours,
                                    cost    |-> cost,
                                    revenue |-> revenue,
                                    profit  |-> LogEntryProfit(revenue, cost)])]
    ELSE st

RECURSIVE ParseLines(_, _)
ParseLines(lines, st) ==
    IF lines = <<>> THEN st
    ELSE ParseLines(Tail(lines), ParseLine(Head(lines), st))

RECURSIVE ParsePages(_, _)
ParsePages(pages, st) ==
    IF pages = <<>> THEN st
    ELSE IF Head(pages) = <<>>
         THEN ParsePages(Tail(pages), st)
         ELSE ParsePages(Tail(pages), ParseLines(Head(pages), st))

parse_equipment_pdf(pages) ==
    ParsePages(pages, [extracted_data    |-> <<>>,
                       current_equipment |-> NoEquipment,
                       warnings          |-> 0])


\* ------------------------------------------------------------- format_date
\* 'YYYY-MM-DD' from 'MM/DD/YYYY'; <<>> stands for None (IndexError)
format_date(date_str) ==
    LET date_parts == Split(date_str, "/") IN
    IF Len(date_parts) < 3 THEN <<>>
    ELSE LET month == ZFill(date_parts[1], 2)
             day   == ZFill(date_parts[2], 2)
             year  == date_parts[3]
         IN  year \o <<"-">> \o month \o <<"-">> \o day

\* --------------------------------------------------------------- the store
\* Input of a value of type date: the text must name a calendar date.
DaysInMonth(y, m) ==
    IF m \in {4, 6, 9, 11} THEN 30
    ELSE IF m = 2
         THEN (IF y % 4 = 0 /\ (y % 100 # 0 \/ y % 400 = 0) THEN 29 ELSE 28)
         ELSE 31

DateValid(iso) ==
    LET p == Split(iso, "-") IN
    /\ Len(p) = 3
    /\ \A i \in 1..3 : p[i] # <<>> /\ AllDigits(p[i])
    /\ NumVal(p[1]) >= 1
    /\ NumVal(p[2]) \in 1..12
    /\ NumVal(p[3]) \in 1..DaysInMonth(NumVal(p[1]), NumVal(p[2]))

\* The natural key of a usage_logs row under the no-op-on-conflict constraint.
NaturalKey(r) == <<r.equipment_id, r.date, r.hours, r.cost, r.revenue>>

\* The profit a usage_logs row holds: the supplied value (<<v>>), and
\* revenue - cost when the INSERT names no profit column (<<>>).
StoredProfit(supplied, cost, revenue) ==
    IF supplied = <<>> THEN revenue - cost ELSE supplied[1]

VARIABLES
    argv,             \* sys.argv of each pipeline run
    pdf,              \* the pages of the document while main holds it
    pc,               \* position of each pipeline
    extracted_data,   \* equipment_data returned by parse_equipment_pdf
    parse_warnings,   \* "Could not parse data row" warnings printed
    eq_idx, log_idx,  \* positions of the two loops of insert_into_database
    equipment_db_id,  \* id returned by the last equipment upsert
    returned,         \* the ids returned by this run's upserts, in order
    total_equipment, total_logs, log_count, skipped_count,
    tx,               \* state of the loader's transaction
    pend,             \* rows written by the transaction, not yet committed
    exit_code, outcome,
    run,              \* loads of the document started so far
    loads_committed,  \* loads of the document whose COMMIT took effect
    db,               \* committed rows of equipment and usage_logs
    next_id,          \* equipment_id_seq
    next_log_id,      \* usage_logs_id_seq
    faulted,          \* whether the environment failed a storage call of the run
    api_calls, api_response

vars == <<argv, pdf, pc, extracted_data, parse_warnings, eq_idx, log_idx,
          equipment_db_id, returned, total_equipment, total_logs, log_count,
          skipped_count, tx, pend, exit_code, outcome, run, loads_committed,
          db, next_id, next_log_id, faulted, api_calls, api_response>>

loaderVars == <<eq_idx, log_idx, equipment_db_id, returned, total_equipment,
                total_logs, log_count, skipped_count>>

storeVars == <<db, next_id, next_log_id, tx, pend>>

apiVars == <<api_calls, api_response>>

Running == -1

NoPending == [equipment |-> {}, usage_logs |-> {}]

InTransaction(l) == tx[l] \in {"active", "failed"}

\* A storage call may fail for a reason of the environment's (the server is
\* unreachable, a constraint of the schema is violated).
FaultChoices == BOOLEAN

Fault(l, fail) == faulted' = [faulted EXCEPT ![l] = @ \/ fail]

Exit(l, code, what) ==
    /\ pc' = [pc EXCEPT ![l] = "done"]
    /\ exit_code' = [exit_code EXCEPT ![l] = code]
    /\ outcome' = [outcome EXCEPT ![l] = what]

\* ------------------------------------------------------------------- main
FileExists(path) == path = "report.pdf"

Main(l) ==
    /\ pc[l] = "main"
    /\ IF Len(argv[l]) < 2
       THEN /\ Exit(l, 1, "usage")
            /\ UNCHANGED <<extracted_data, parse_warnings>>
       ELSE IF ~FileExists(argv[l][2])
       THEN /\ Exit(l, 1, "not_found")
            /\ UNCHANGED <<extracted_data, parse_warnings>>
       ELSE LET res == parse_equipment_pdf(pdf[l]) IN
            /\ extracted_data' = [extracted_data EXCEPT ![l] = res.extracted_data]
            /\ parse_warnings' = [parse_warnings EXCEPT ![l] = res.warnings]
            /\ pc' = [pc EXCEPT ![l] = "parsed"]
            /\ UNCHANGED <<exit_code, outcome>>
    /\ UNCHANGED <<argv, pdf, loaderVars, storeVars, run, loads_committed,
                   faulted, apiVars>>

DryRun(l) == \E i \in 1..Len(argv[l]) : argv[l][i] = "--dry-run"

\* mutant of CallInsert: main honours a --dry-run argument and skips the load
CallInsertUnlessDryRun(l) == IF DryRun(l) THEN "verify" ELSE "insert"

\* main calls insert_into_database whatever else the command line holds
CallInsert(l) == "insert"

\* mutant of CheckData: main without its check for an empty extraction
CheckDataNoExit(l) ==
    /\ pc[l] = "parsed"
    /\ pdf' = [pdf EXCEPT ![l] = <<>>]
    /\ pc' = [pc EXCEPT ![l] = CallInsert(l)]
    /\ UNCHANGED <<exit_code, outcome>>
    /\ UNCHANGED <<argv, extracted_data, parse_warnings, loaderVars, storeVars,
                   run, loads_committed, faulted, apiVars>>

\* main, after parse_equipment_pdf has returned: the document is closed

CheckData(l) ==
    /\ pc[l] = "parsed"
    /\ pdf' = [pdf EXCEPT ![l] = <<>>]
    /\ IF extracted_data[l] = <<>>
       THEN Exit(l, 1, "no_data")
       ELSE /\ pc' = [pc EXCEPT ![l] = CallInsert(l)]
            /\ UNCHANGED <<exit_code, outcome>>
    /\ UNCHANGED <<argv, extracted_data, parse_warnings, loaderVars, storeVars,
                   run, loads_committed, faulted, apiVars>>


\* ---------------------------------------------------- insert_into_database
\* The equipment rows transaction l sees: its own writes over the committed
\* rows.
ViewEquipment(l) ==
    pend[l].equipment \cup
    {r \in db.equipment : \A p \in pend[l].equipment : p.id # r.id}

ViewLogs(l) == pend[l].usage_logs \cup db.usage_logs

\* mutants of UpsertRow: a plain INSERT, and ON CONFLICT DO NOTHING
UpsertRowAlwaysInsert(view, equipment_id, name, nid) ==
    [id |-> nid, equipment_id |-> equipment_id, name |-> name]

UpsertRowKeepName(view, equipment_id, name, nid) ==
    IF \E r \in view : r.equipment_id = equipment_id
    THEN CHOOSE r \in view : r.equipment_id = equipment_id
    ELSE [id |-> nid, equipment_id |-> equipment_id, name |-> name]

\* INSERT INTO equipment ... ON CONFLICT (equipment_id) DO UPDATE SET name
\* ... RETURNING id: the row the statement writes (timestamps left out).
UpsertRow(view, equipment_id, name, nid) ==
    IF \E r \in view : r.equipment_id = equipment_id
    THEN [(CHOOSE r \in view : r.equipment_id = equipment_id) EXCEPT !.name = name]
    ELSE [id |-> nid, equipment_id |-> equipment_id, name |-> name]

\* The upsert waits while another open transaction holds a row with the same
\* equipment_id that it wrote and has not yet committed or rolled back.
Holders(l, equipment_id) ==
    {o \in Loaders \ {l} :
        /\ InTransaction(o)
        /\ \E p \in pend[o].equipment : p.equipment_id = equipment_id}

\* mutant of LockFree: the upsert does not wait for the other transaction
LockFreeAlways(l, equipment_id) == TRUE

LockFree(l, equipment_id) == Holders(l, equipment_id) = {}

\* conn.rollback() in the except clauses, then sys.exit(1)
FatalRollback(l) ==
    /\ pend' = [pend EXCEPT ![l] = NoPending]
    /\ tx' = [tx EXCEPT ![l] = "rolledback"]
    /\ Exit(l, 1, "fatal_db")

\* where the loops of insert_into_database stand after log number done of
\* equipment number e
Advance(l, e, done) ==
    IF done < Len(extracted_data[l][e].usage_logs)
    THEN /\ pc' = [pc EXCEPT ![l] = "logs"]
         /\ eq_idx' = [eq_idx EXCEPT ![l] = e]
         /\ log_idx' = [log_idx EXCEPT ![l] = done + 1]
    ELSE IF e < Len(extracted_data[l])
    THEN /\ pc' = [pc EXCEPT ![l] = "upsert"]
         /\ eq_idx' = [eq_idx EXCEPT ![l] = e + 1]
         /\ log_idx' = [log_idx EXCEPT ![l] = 0]
    ELSE /\ pc' = [pc EXCEPT ![l] = "commit"]
         /\ eq_idx' = [eq_idx EXCEPT ![l] = e]
         /\ log_idx' = [log_idx EXCEPT ![l] = 0]

Connect(l) ==
    /\ pc[l] = "insert"
    /\ IF extracted_data[l] = <<>>
       THEN /\ pc' = [pc EXCEPT ![l] = "verify"]
            /\ UNCHANGED <<exit_code, outcome, loaderVars, tx, pend, faulted>>
       ELSE \E fail \in FaultChoices :
            IF fail
            THEN \* connect_to_database: sys.exit(1)
                 /\ Exit(l, 1, "fatal_db")
                 /\ Fault(l, TRUE)
                 /\ UNCHANGED <<loaderVars, tx, pend>>
            ELSE /\ pc' = [pc EXCEPT ![l] = "upsert"]
                 /\ tx' = [tx EXCEPT ![l] = "active"]
                 /\ pend' = [pend EXCEPT ![l] = NoPending]
                 /\ eq_idx' = [eq_idx EXCEPT ![l] = 1]
                 /\ log_idx' = [log_idx EXCEPT ![l] = 0]
                 /\ equipment_db_id' = [equipment_db_id EXCEPT ![l] = 0]
                 /\ returned' = [returned EXCEPT ![l] = <<>>]
                 /\ total_equipment' = [total_equipment EXCEPT ![l] = 0]
                 /\ total_logs' = [total_logs EXCEPT ![l] = 0]
                 /\ log_count' = [log_count EXCEPT ![l] = 0]
                 /\ skipped_count' = [skipped_count EXCEPT ![l] = 0]
                 /\ UNCHANGED <<exit_code, outcome, faulted>>
    /\ UNCHANGED <<argv, pdf, extracted_data, parse_warnings, run,
                   loads_committed, db, next_id, next_log_id, apiVars>>

Upsert(l) ==
    /\ pc[l] = "upsert"
    /\ LET equipment == extracted_data[l][eq_idx[l]] IN
       \E fail \in (IF tx[l] = "active" THEN FaultChoices ELSE {FALSE}) :
         IF tx[l] = "failed" \/ fail
         THEN \* psycopg2.Error reaches the outer except clause
              /\ FatalRollback(l)
              /\ Fault(l, fail)
              /\ UNCHANGED <<loaderVars, db, next_id>>
         ELSE /\ LockFree(l, equipment.equipment_id)
              /\ LET row == UpsertRow(ViewEquipment(l), equipment.equipment_id,
                                      equipment.name, next_id)
                 IN  /\ pend' = [pend EXCEPT ![l].equipment =
                                    {p \in @ : p.id # row.id} \cup {row}]
                     /\ equipment_db_id' = [equipment_db_id EXCEPT ![l] = row.id]
                     /\ returned' = [returned EXCEPT ![l] = Append(@, row.id)]
              /\ next_id' = next_id + 1
              /\ total_equipment' = [total_equipment EXCEPT ![l] = @ + 1]
              /\ log_count' = [log_count EXCEPT ![l] = 0]
              /\ skipped_count' = [skipped_count EXCEPT ![l] = 0]
              /\ Advance(l, eq_idx[l], 0)
              /\ UNCHANGED <<total_logs, tx, exit_code, outcome, faulted, db>>
    /\ UNCHANGED <<argv, pdf, extracted_data, parse_warnings, run,
                   loads_committed, next_log_id, apiVars>>

InsertLog(l) ==
    /\ pc[l] = "logs"
    /\ LET log == extracted_data[l][eq_idx[l]].usage_logs[log_idx[l]]
           formatted_date == format_date(log.date)
       IN
       IF formatted_date = <<>>
       THEN /\ skipped_count' = [skipped_count EXCEPT ![l] = @ + 1]
            /\ UNCHANGED <<log_count, total_logs, tx, pend, next_log_id, faulted>>
       ELSE \E fail \in (IF tx[l] = "active" THEN FaultChoices ELSE {FALSE}) :
            IF tx[l] = "failed" \/ fail \/ ~DateValid(formatted_date)
            THEN \* except psycopg2.Error: the row is counted as skipped; the
                 \* server has put the transaction in the failed state
                 /\ skipped_count' = [skipped_count EXCEPT ![l] = @ + 1]
                 /\ tx' = [tx EXCEPT ![l] = "failed"]
                 /\ Fault(l, fail)
                 /\ UNCHANGED <<log_count, total_logs, pend, next_log_id>>
            ELSE LET row == [id           |-> next_log_id,
                             equipment_id |-> equipment_db_id[l],
                             date         |-> formatted_date,
                             hours        |-> log.hours,
                             cost         |-> log.cost,
                             revenue      |-> log.revenue,
                             profit       |-> StoredProfit(<<>>, log.cost,
                                                           log.revenue)]
                 IN  /\ next_log_id' = next_log_id + 1
                     /\ IF \E r \in ViewLogs(l) : NaturalKey(r) = NaturalKey(row)
                        THEN \* ON CONFLICT DO NOTHING: rowcount = 0
                             UNCHANGED <<pend, log_count, total_logs>>
                        ELSE /\ pend' = [pend EXCEPT ![l].usage_logs = @ \cup {row}]
                             /\ log_count' = [log_count EXCEPT ![l] = @ + 1]
                             /\ total_logs' = [total_logs EXCEPT ![l] = @ + 1]
                     /\ UNCHANGED <<skipped_count, tx, faulted>>
    /\ Advance(l, eq_idx[l], log_idx[l])
    /\ UNCHANGED <<argv, pdf, extracted_data, parse_warnings, equipment_db_id,
                   returned, total_equipment, exit_code, outcome, run,
                   loads_committed, db, next_id, apiVars>>

\* the committed rows after the transaction's writes are applied
Applied(committed, pending) ==
    [equipment  |-> {r \in committed.equipment :
                        \A p \in pending.equipment : p.id # r.id}
                    \cup pending.equipment,
     usage_logs |-> committed.usage_logs \cup pending.usage_logs]

Commit(l) ==
    /\ pc[l] = "commit"
    /\ \E fail \in FaultChoices :
         IF fail
         THEN \* conn.commit() raises psycopg2.Error
              /\ FatalRollback(l)
              /\ Fault(l, TRUE)
              /\ UNCHANGED <<db, loads_committed>>
         ELSE /\ pc' = [pc EXCEPT ![l] = "verify"]
              /\ pend' = [pend EXCEPT ![l] = NoPending]
              /\ IF tx[l] = "failed"
                 THEN \* COMMIT of a failed transaction is a ROLLBACK and
                      \* raises nothing
                      /\ tx' = [tx EXCEPT ![l] = "rolledback"]
                      /\ UNCHANGED <<db, loads_committed>>
                 ELSE /\ tx' = [tx EXCEPT ![l] = "committed"]
                      /\ db' = Applied(db, pend[l])
                      /\ loads_committed' = [loads_committed EXCEPT ![l] = @ + 1]
              /\ UNCHANGED <<exit_code, outcome, faulted>>
    /\ UNCHANGED <<argv, pdf, extracted_data, parse_warnings, loaderVars, run,
                   next_id, next_log_id, apiVars>>

\* verify_data (read-only) and the end of main
VerifyData(l) ==
    /\ pc[l] = "verify"
    /\ \E fail \in FaultChoices :
         IF fail
         THEN /\ Exit(l, 1, "fatal_db")
              /\ Fault(l, TRUE)
         ELSE /\ Exit(l, 0, "success")
              /\ UNCHANGED faulted
    /\ UNCHANGED <<argv, pdf, extracted_data, parse_warnings, loaderVars,
                   storeVars, run, loads_committed, apiVars>>

\* The server ends a deadlock between two waiting upserts by failing one of
\* them; the error reaches the outer except clause.
DeadlockAbort(l) ==
    /\ pc[l] = "upsert"
    /\ tx[l] = "active"
    /\ \E o \in Holders(l, extracted_data[l][eq_idx[l]].equipment_id) :
         /\ pc[o] = "upsert"
         /\ tx[o] = "active"
         /\ l \in Holders(o, extracted_data[o][eq_idx[o]].equipment_id)
    /\ FatalRollback(l)
    /\ UNCHANGED <<argv, pdf, extracted_data, parse_warnings, loaderVars, run,
                   loads_committed, db, next_id, next_log_id, faulted, apiVars>>

\* After a run that reported success the operator runs the program again on
\* the unchanged document: the parse is a function of the document, so the
\* loader gets the same equipment_data.
Rerun(l) ==
    /\ pc[l] = "done"
    /\ run[l] < MaxRuns
    /\ outcome[l] = "success"
    /\ pc' = [pc EXCEPT ![l] = CallInsert(l)]
    /\ run' = [run EXCEPT ![l] = @ + 1]
    /\ exit_code' = [exit_code EXCEPT ![l] = Running]
    /\ outcome' = [outcome EXCEPT ![l] = "running"]
    /\ tx' = [tx EXCEPT ![l] = "idle"]
    /\ faulted' = [faulted EXCEPT ![l] = FALSE]
    /\ UNCHANGED <<argv, pdf, extracted_data, parse_warnings, loaderVars, pend,
                   loads_committed, db, next_id, next_log_id, apiVars>>


\* -------------------------------------------------------- create_usage_log
Iso0115 == <<"2", "0", "2", "4", "-", "0", "1", "-", "1", "5">>

\* request bodies (UsageLog); profit is Optional: <<>> when the client
\* sends none
ApiLogs ==
    [equipment_id : {1}, date : {Iso0115}, hours : {850}, cost : {12000},
     revenue : {45000, 10000}, profit : {<<>>, <<1>>}]

\* mutant of ApiProfit: the profit the client sent is stored
ApiProfitFromClient(log) ==
    IF log.profit = <<>> THEN log.revenue - log.cost ELSE log.profit[1]

ApiProfit(log) == log.revenue - log.cost

create_usage_log ==
    /\ api_calls < MaxApiCalls
    /\ api_calls' = api_calls + 1
    /\ \E log \in ApiLogs :
         IF ~\E r \in db.equipment : r.id = log.equipment_id
         THEN /\ api_response' = [status |-> 404, profit |-> 0]
              /\ UNCHANGED <<db, next_log_id>>
         ELSE LET profit == ApiProfit(log)
                  row == [id           |-> next_log_id,
                          equipment_id |-> log.equipment_id,
                          date         |-> log.date,
                          hours        |-> log.hours,
                          cost         |-> log.cost,
                          revenue      |-> log.revenue,
                          profit       |-> StoredProfit(<<profit>>, log.cost,
                                                        log.revenue)]
              IN  \* the INSERT waits for an open transaction that wrote the
                  \* same natural key
                  /\ \A o \in Loaders : InTransaction(o) =>
                        \A p \in pend[o].usage_logs : NaturalKey(p) # NaturalKey(row)
                  /\ next_log_id' = next_log_id + 1
                  /\ IF \E r \in db.usage_logs : NaturalKey(r) = NaturalKey(row)
                     THEN \* unique violation: the request fails, nothing stored
                          /\ api_response' = [status |-> 500, profit |-> 0]
                          /\ UNCHANGED db
                     ELSE /\ db' = [db EXCEPT !.usage_logs = @ \cup {row}]
                          /\ api_response' = [status |-> 200, profit |-> row.profit]
    /\ UNCHANGED <<argv, pdf, pc, extracted_data, parse_warnings, loaderVars,
                   tx, pend, exit_code, outcome, run, loads_committed, next_id,
                   faulted>>

\* ---------------------------------------------------------- specifications
Argvs == {<<"prog">>, <<"prog", "missing.pdf">>, <<"prog", "report.pdf">>}

DryRunArgv == <<"prog", "report.pdf", "--dry-run">>

Runnable(a) == Len(a) >= 2 /\ FileExists(a[2])

InitRest ==
    /\ extracted_data = [l \in Loaders |-> <<>>]
    /\ parse_warnings = [l \in Loaders |-> 0]
    /\ eq_idx = [l \in Loaders |-> 0]
    /\ log_idx = [l \in Loaders |-> 0]
    /\ equipment_db_id = [l \in Loaders |-> 0]
    /\ returned = [l \in Loaders |-> <<>>]
    /\ total_equipment = [l \in Loaders |-> 0]
    /\ total_logs = [l \in Loaders |-> 0]
    /\ log_count = [l \in Loaders |-> 0]
    /\ skipped_count = [l \in Loaders |-> 0]
    /\ tx = [l \in Loaders |-> "idle"]
    /\ pend = [l \in Loaders |-> NoPending]
    /\ exit_code = [l \in Loaders |-> Running]
    /\ outcome = [l \in Loaders |-> "running"]
    /\ run = [l \in Loaders |-> 1]
    /\ loads_committed = [l \in Loaders |-> 0]
    /\ db = [equipment |-> {}, usage_logs |-> {}]
    /\ next_id = 1
    /\ next_log_id = 1
    /\ faulted = [l \in Loaders |-> FALSE]
    /\ api_calls = 0
    /\ api_response = [status |-> 0, profit |-> 0]

\* one pipeline, started on any document, run again after a success
Init ==
    /\ \E a \in Argvs, d \in Docs :
         /\ Runnable(a) \/ d = << <<>> >>
         /\ argv = [l \in Loaders |-> IF l = 1 THEN a ELSE <<>>]
         /\ pdf = [l \in Loaders |-> IF l = 1 THEN d ELSE <<>>]
    /\ pc = [l \in Loaders |-> IF l = 1 THEN "main" ELSE "off"]
    /\ InitRest

Step(l) ==
    \/ Main(l)
    \/ CheckData(l)
    \/ Connect(l)
    \/ Upsert(l)
    \/ InsertLog(l)
    \/ Commit(l)
    \/ VerifyData(l)

Next ==
    \/ \E l \in Loaders : Step(l)
    \/ \E l \in Loaders : Rerun(l)

Spec == Init /\ [][Next]_vars

\* one pipeline started with the --dry-run argument
InitDryRun ==
    /\ \E d \in Docs :
         /\ argv = [l \in Loaders |-> IF l = 1 THEN DryRunArgv ELSE <<>>]
         /\ pdf = [l \in Loaders |-> IF l = 1 THEN d ELSE <<>>]
    /\ pc = [l \in Loaders |-> IF l = 1 THEN "main" ELSE "off"]
    /\ InitRest

NextDryRun == \E l \in Loaders : Step(l)

SpecDryRun == InitDryRun /\ [][NextDryRun]_vars

\* one pipeline and the API's POST /usage_logs
InitApi ==
    /\ \E d \in Docs :
         /\ argv = [l \in Loaders |-> IF l = 1 THEN <<"prog", "report.pdf">> ELSE <<>>]
         /\ pdf = [l \in Loaders |-> IF l = 1 THEN d ELSE <<>>]
    /\ pc = [l \in Loaders |-> IF l = 1 THEN "main" ELSE "off"]
    /\ InitRest

NextApi ==
    \/ \E l \in Loaders : Step(l)
    \/ create_usage_log

SpecApi == InitApi /\ [][NextApi]_vars

\* two pipelines at once, each with its own document and transaction
InitConc ==
    /\ argv = [l \in Loaders |-> <<"prog", "report.pdf">>]
    /\ pdf \in [Loaders -> ConcDocs]
    /\ pc = [l \in Loaders |-> "main"]
    /\ InitRest

NextConc ==
    \/ \E l \in Loaders : Step(l)
    \/ \E l \in Loaders : DeadlockAbort(l)

SpecConc == InitConc /\ [][NextConc]_vars


\* ======================================================= claims: the parser
RECURSIVE Flatten(_)
Flatten(pages) ==
    IF pages = <<>> THEN <<>> ELSE Head(pages) \o Flatten(Tail(pages))

IsHeader(line) == line.eq # NoMatch

IsRow(line) == line.eq = NoMatch /\ line.row # NoMatch

HeaderPos(f) == {i \in 1..Len(f) : IsHeader(f[i])}

KthHeader(f, k) ==
    CHOOSE i \in HeaderPos(f) : Cardinality({j \in HeaderPos(f) : j <= i}) = k

SectionEnd(f, k) ==
    IF k < Cardinality(HeaderPos(f)) THEN KthHeader(f, k + 1) - 1 ELSE Len(f)

SectionRows(f, k) ==
    SelectSeq(SubSeq(f, KthHeader(f, k) + 1, SectionEnd(f, k)), IsRow)

OrphanRows(f) ==
    {i \in 1..Len(f) : IsRow(f[i]) /\ \A j \in 1..i : ~IsHeader(f[j])}

RECURSIVE TotalLogs(_)
TotalLogs(data) ==
    IF data = <<>> THEN 0 ELSE Len(Head(data).usage_logs) + TotalLogs(Tail(data))

Parsed(l) == pc[l] = "parsed"

\* C10: every accepted data row belongs to exactly one section, the one
\* opened by the most recent header line before it in document order; the
\* open section carries over page boundaries and text-less pages, and a
\* line matching the header pattern opens a section and adds no row.
C10_SectionContext ==
    \A l \in Loaders : Parsed(l) =>
        LET f  == Flatten(pdf[l])
            ed == extracted_data[l]
        IN  /\ Len(ed) = Cardinality(HeaderPos(f))
            /\ \A k \in 1..Len(ed) :
                 LET rows == SectionRows(f, k) IN
                 /\ ed[k].equipment_id = Strip(f[KthHeader(f, k)].eq[1])
                 /\ Len(ed[k].usage_logs) = Len(rows)
                 /\ \A j \in 1..Len(rows) :
                      ed[k].usage_logs[j].date = rows[j].row[1]

\* a section opened by a line that also matches the row pattern, a
\* text-less page, and a row on the page after it
C10_Witness ==
    \E l \in Loaders :
        /\ Parsed(l)
        /\ pdf[l] = << <<HA2>>, <<>>, <<R3>> >>
        /\ Len(extracted_data[l]) = 1
        /\ Len(extracted_data[l][1].usage_logs) = 1
        /\ extracted_data[l][1].usage_logs[1].date = Date0201

Done(l) == pc[l] = "done"

EquipmentRowsFor(equipment_id) ==
    {r \in db.equipment : r.equipment_id = equipment_id}

LogsFor(equipment_id) ==
    {g \in db.usage_logs :
        \E r \in EquipmentRowsFor(equipment_id) : r.id = g.equipment_id}

NoDuplicateLogs ==
    \A g, h \in db.usage_logs : NaturalKey(g) = NaturalKey(h) => g = h

\* the COMMIT of a load of l takes effect in this step
CommitTakesEffect(l) ==
    /\ pc[l] = "commit"
    /\ pc'[l] = "verify"
    /\ tx'[l] = "committed"

\* C1: a committed load of a document that was already loaded and committed
\* leaves the number of equipment rows and of usage_logs rows unchanged, and
\* no two usage_logs rows ever share a natural key.
C1_ReloadIdempotent ==
    /\ [][\A l \in Loaders :
            (CommitTakesEffect(l) /\ loads_committed[l] >= 1) =>
                /\ Cardinality(db'.equipment) = Cardinality(db.equipment)
                /\ Cardinality(db'.usage_logs) = Cardinality(db.usage_logs)]_vars
    /\ []NoDuplicateLogs

\* the second load of a document with two rows of one natural key has
\* committed and inserted nothing
C1_Witness ==
    \E l \in Loaders :
        /\ run[l] = 2
        /\ tx[l] = "committed"
        /\ loads_committed[l] = 2
        /\ total_logs[l] = 0
        /\ TotalLogs(extracted_data[l]) >= 2
        /\ Cardinality(db.usage_logs) = 1

\* C2: a run in which a statement of the loader's transaction failed commits
\* nothing and ends in the fatal-error outcome with a non-zero exit status.
C2_FailedStatementIsFatal ==
    \A l \in Loaders :
        (Done(l) /\ tx[l] = "rolledback") =>
            /\ exit_code[l] # 0
            /\ outcome[l] = "fatal_db"

\* the usage_logs entries of section k whose date is no calendar date
BadDates(ed, k) ==
    {j \in 1..Len(ed[k].usage_logs) :
        ~DateValid(format_date(ed[k].usage_logs[j].date))}

EntryKey(e) == <<format_date(e.date), e.hours, e.cost, e.revenue>>

\* section k is the only section of its equipment and holds N >= 2 rows,
\* exactly one of them malformed, the others pairwise different
OneMalformedRow(ed, k) ==
    /\ \A m \in 1..Len(ed) : ed[m].equipment_id = ed[k].equipment_id => m = k
    /\ Len(ed[k].usage_logs) >= 2
    /\ Cardinality(BadDates(ed, k)) = 1
    /\ \A i, j \in 1..Len(ed[k].usage_logs) :
         EntryKey(ed[k].usage_logs[i]) = EntryKey(ed[k].usage_logs[j]) => i = j

\* C3: a section of N recognized rows, exactly one of them malformed, ends
\* with its N-1 valid rows stored, and the run is not aborted.
C3_MalformedRowRejectedAlone ==
    \A l \in Loaders :
        (Done(l) /\ run[l] = 1 /\ ~faulted[l]) =>
            \A k \in 1..Len(extracted_data[l]) :
                OneMalformedRow(extracted_data[l], k) =>
                    /\ exit_code[l] = 0
                    /\ Cardinality(LogsFor(extracted_data[l][k].equipment_id))
                         = Len(extracted_data[l][k].usage_logs) - 1

NoHeaderLine(pages) == HeaderPos(Flatten(pages)) = {}

EmptyStore == [equipment |-> {}, usage_logs |-> {}]

\* C6 as stated: a document without a header line gives an empty extraction
\* and no stored row, and the run ends as "no data found", not as an error.
C6_NoDataIsNotAnError ==
    \A l \in Loaders :
        /\ (Parsed(l) /\ NoHeaderLine(pdf[l])) => extracted_data[l] = <<>>
        /\ (Done(l) /\ outcome[l] = "no_data") =>
              /\ db = EmptyStore
              /\ exit_code[l] = 0

\* C6 as amended: a document without a header line gives an empty extraction;
\* the run then ends as "no data found" with exit status 1, without opening
\* a transaction or adding a row.
C6_NoDataExitsOne ==
    \A l \in Loaders :
        /\ (Parsed(l) /\ NoHeaderLine(pdf[l])) => extracted_data[l] = <<>>
        /\ (Done(l) /\ Runnable(argv[l]) /\ extracted_data[l] = <<>>) =>
              /\ outcome[l] = "no_data"
              /\ exit_code[l] = 1
              /\ tx[l] = "idle"
              /\ db = EmptyStore
              /\ next_id = 1
        /\ outcome[l] = "no_data" => extracted_data[l] = <<>>

C6_Witness ==
    \E l \in Loaders :
        /\ Done(l)
        /\ outcome[l] = "no_data"
        /\ exit_code[l] = 1
        /\ db = EmptyStore

LastSection(ed, equipment_id) ==
    CHOOSE k \in 1..Len(ed) :
        /\ ed[k].equipment_id = equipment_id
        /\ \A m \in 1..Len(ed) : ed[m].equipment_id = equipment_id => m <= k

EquipmentKeyed ==
    \A r, q \in db.equipment :
        (r.equipment_id = q.equipment_id \/ r.id = q.id) => r = q

\* while its transaction is open, the id a loader got for a section is the id
\* of the committed row of that equipment_id, if there is one
ReturnedIdIsRowId ==
    \A l \in Loaders : tx[l] = "active" =>
        \A k \in 1..Len(returned[l]) :
            \A r \in EquipmentRowsFor(extracted_data[l][k].equipment_id) :
                r.id = returned[l][k]

\* after a load has committed, each of its equipment_ids has one row, with
\* the id the loader was given and the name of its last section
NameOfLastSection ==
    \A l \in Loaders : tx[l] = "committed" =>
        /\ Len(returned[l]) = Len(extracted_data[l])
        /\ \A k \in 1..Len(extracted_data[l]) :
             LET ed == extracted_data[l] IN
             \E r \in db.equipment :
                /\ r.equipment_id = ed[k].equipment_id
                /\ r.id = returned[l][k]
                /\ r.name = ed[LastSection(ed, ed[k].equipment_id)].name

\* C8: equipment rows are keyed by equipment_id: equipment_id is unique among
\* them, a row keeps the id of its first insert (which every later upsert
\* returns), and its name is that of the last section processed for it.
C8_UpsertKeyedByEquipmentId ==
    /\ [](EquipmentKeyed /\ ReturnedIdIsRowId /\ NameOfLastSection)
    /\ [][\A r \in db.equipment :
            \E q \in db'.equipment :
                q.id = r.id /\ q.equipment_id = r.equipment_id]_vars

\* the second load of a document whose two sections name the same equipment
\* differently has committed
C8_Witness ==
    \E l \in Loaders :
        /\ run[l] = 2
        /\ tx[l] = "committed"
        /\ Len(extracted_data[l]) >= 2
        /\ extracted_data[l][1].equipment_id = extracted_data[l][2].equipment_id
        /\ extracted_data[l][1].name # extracted_data[l][2].name
        /\ returned[l][1] = 1
        /\ Cardinality(db.equipment) = 1

\* C9 as stated: a run started with --dry-run issues no mutating storage
\* call and leaves the store as it was.
C9_DryRunLeavesStore ==
    \A l \in Loaders : DryRun(l) =>
        /\ db = EmptyStore
        /\ pend[l] = NoPending
        /\ total_equipment[l] = 0

\* C9 as amended: the program has no dry-run mode; main reads argv[1] only,
\* and a run started with --dry-run that reports success has issued the
\* upsert of every section, and its committed transaction has stored them.
C9_DryRunIgnored ==
    \A l \in Loaders : (DryRun(l) /\ Done(l) /\ exit_code[l] = 0) =>
        /\ extracted_data[l] # <<>>
        /\ total_equipment[l] = Len(extracted_data[l])
        /\ tx[l] \in {"committed", "rolledback"}
        /\ tx[l] = "committed" =>
              \A k \in 1..Len(extracted_data[l]) :
                  EquipmentRowsFor(extracted_data[l][k].equipment_id) # {}

C9_Witness ==
    \E l \in Loaders :
        /\ DryRun(l)
        /\ Done(l)
        /\ exit_code[l] = 0
        /\ tx[l] = "committed"
        /\ db.equipment # {}
        /\ db.usage_logs # {}

ForeignKeysHold ==
    \A g \in db.usage_logs : \E r \in db.equipment : r.id = g.equipment_id

====
